---- MODULE Spec2Model ----
\* Model of src/api/server.js: the predios status API (express handlers over a
\* PostgreSQL pool).  The state is the API key of the process, the three tables
\* the handlers read and write, the requests that are waiting on an awaited query,
\* whether an error was written to the console, and the response sent by the
\* last step.  A handler runs up to its next await in one step; the database
\* runs a statement in a step of its own; the handler's continuation is another.
EXTENDS Integers, Sequences, FiniteSets, TLC

VARIABLES
    api_key,        \* API_KEY of the process ("" when unset)
    predios,        \* table predios: set of rows [id_predio, status, seccion, updated_at]
    predio_logs,    \* table predio_logs: sequence of rows in insertion (serial id) order
    user_sessions,  \* table user_sessions: sequence of rows in insertion order
    inflight,       \* slot -> request waiting on an awaited query
    served,         \* requests received so far
    errors,         \* console.error has written an error
    resp            \* response sent by the last step (NoResp when the step sent none)

vars == <<api_key, predios, predio_logs, user_sessions, inflight, served, errors, resp>>

\* ---------------------------------------------------------------- bounds
MaxServed == 2      \* requests received in a run
Instants == 0..1    \* values of now()

\* ---------------------------------------------------------------- values
Undefined == "<undefined>"     \* a property absent from the JSON body / query
Null == "<null>"               \* SQL NULL / JS null
NaN == "<NaN>"                 \* JS NaN

Min(a, b) == IF a <= b THEN a ELSE b

Range(s) == {s[i] : i \in DOMAIN s}

\* All orderings of a finite set, as sequences without repetition.
SeqsOf(S) ==
    {s \in [1..Cardinality(S) -> S] : \A i, j \in 1..Cardinality(S) : s[i] = s[j] => i = j}

\* JS truthiness of the values a body or query property takes here.
Falsy(v) == v \in {Undefined, Null, ""}

\* Texts that the handlers split or join are sequences of pieces; an absent one
\* holds the Undefined marker alone, a NULL one the Null marker alone.
NoText == <<Undefined>>
NullText == <<Null>>
FalsyText(t) == t \in {NoText, NullText, <<>>}

NoResp == [op |-> "none", code |-> 0, body |-> <<>>]
Response(op, code, body) == [op |-> op, code |-> code, body |-> body]
DbError(op) == Response(op, 500, [error |-> "db_error"])

Idle == [pc |-> "idle"]
\* Two requests may be waiting on their queries at once.
Slots == {1, 2}
Busy == {s \in Slots : inflight[s].pc # "idle"}

\* now() is the start time of the statement's transaction: statements of two
\* connections of the pool may take effect in the other order than they began,
\* and the clock may be set, so any instant may follow any other.
Nows == Instants

\* ---------------------------------------------------------------- auth
\* Values of the Authorization header: absent, the key "k" as bearer, another.
Bearer(key) == <<"Bearer ", key>>
Headers == {NoText, Bearer("k"), Bearer("x")}

\* Lines 49-51: no key set, or the header is 'Bearer ' followed by the key.
Auth(key, header) ==
    \/ key = ""
    \/ (IF FalsyText(header) THEN <<>> ELSE header) = Bearer(key)

\* Some request passes auth / some request does not.
Authorized == \E header \in Headers : Auth(api_key, header)

Routes == {"GET /predios", "POST /predios", "POST /login", "GET /stats",
           "GET /users", "GET /activity"}

\* Line 52: a route behind auth asked for without the key.
Unauthorized(route) ==
    /\ \E header \in Headers : ~Auth(api_key, header)
    /\ served < MaxServed
    /\ served' = served + 1
    /\ resp' = Response(route, 401, [error |-> "unauthorized"])
    /\ UNCHANGED <<api_key, predios, predio_logs, user_sessions, inflight, errors>>

\* Line 55.
Health ==
    /\ served < MaxServed
    /\ served' = served + 1
    /\ resp' = Response("GET /health", 200, [ok |-> TRUE])
    /\ UNCHANGED <<api_key, predios, predio_logs, user_sessions, inflight, errors>>

\* ---------------------------------------------------------------- POST /predios
StatusEnum == {"rojo", "azul", "neutral"}

\* Destructuring defaults: a default applies to an undefined property only.
Default(v, d) == IF v = Undefined THEN d ELSE v

Destructure(body) ==
    [id_predio |-> body.id_predio,
     status    |-> Default(body.status, "neutral"),
     seccion   |-> Default(body.seccion, Null),
     usuario   |-> Default(body.usuario, Null)]

ValidStatusAcceptsAny(status) == TRUE

ValidStatus(status) == status \in StatusEnum

ValidationSkipsId(req) ==
    IF ~ValidStatus(req.status) THEN "status inválido" ELSE "ok"

\* "ok", or the error of the first failed check.
Validation(req) ==
    IF Falsy(req.id_predio) THEN "id_predio requerido"
    ELSE IF ~ValidStatus(req.status) THEN "status inválido"
    ELSE "ok"

RowsOf(table, id) == {p \in table : p.id_predio = id}

Ids(table) == {p.id_predio : p \in table}

NewRow(id, status, seccion, now) ==
    [id_predio |-> id, status |-> status, seccion |-> seccion, updated_at |-> now]

UpsertAlwaysInserts(table, id, status, seccion, now) ==
    table \cup {NewRow(id, status, seccion, now)}

UpsertKeepsSeccion(table, id, status, seccion, now) ==
    IF RowsOf(table, id) # {}
    THEN {IF p.id_predio = id
          THEN [p EXCEPT !.status = status, !.updated_at = now]
          ELSE p : p \in table}
    ELSE table \cup {NewRow(id, status, seccion, now)}

UpsertIgnoresConflict(table, id, status, seccion, now) ==
    IF RowsOf(table, id) # {} THEN table
    ELSE table \cup {NewRow(id, status, seccion, now)}

\* insert ... on conflict (id_predio) do update set status, seccion, updated_at
Upsert(table, id, status, seccion, now) ==
    IF RowsOf(table, id) # {}
    THEN {IF p.id_predio = id
          THEN [p EXCEPT !.status = status, !.seccion = seccion, !.updated_at = now]
          ELSE p : p \in table}
    ELSE table \cup {NewRow(id, status, seccion, now)}

LogRow(req, now) ==
    [id_predio |-> req.id_predio, status |-> req.status, seccion |-> req.seccion,
     usuario |-> req.usuario, created_at |-> now]

InsertLogReplacesLast(log, req, now) ==
    IF log = <<>> THEN <<LogRow(req, now)>>
    ELSE [log EXCEPT ![Len(log)] = LogRow(req, now)]

\* insert into predio_logs (...) values (..., now())
InsertLog(log, req, now) == Append(log, LogRow(req, now))

FreeSlot == CHOOSE s \in Slots : inflight[s].pc = "idle" /\ \A t \in Slots : inflight[t].pc = "idle" => s <= t

\* Lines 77-81: destructure, validate, and send the upsert.
PostPredios(body) ==
    LET req == Destructure(body)
        v == Validation(req)
    IN  /\ Authorized
        /\ served < MaxServed
        /\ served' = served + 1
        /\ IF v # "ok"
           THEN /\ resp' = Response("POST /predios", 400, [error |-> v])
                /\ inflight' = inflight
           ELSE /\ Busy # Slots
                /\ inflight' = [inflight EXCEPT ![FreeSlot] =
                                    [op |-> "POST /predios", pc |-> "upsert", req |-> req]]
                /\ resp' = NoResp
        /\ UNCHANGED <<api_key, predios, predio_logs, user_sessions, errors>>

\* Lines 81-87: the database runs the upsert; the handler sends the log insert.
UpsertDone(s) ==
    /\ inflight[s].pc = "upsert"
    /\ \E now \in Nows :
          predios' = Upsert(predios, inflight[s].req.id_predio, inflight[s].req.status,
                            inflight[s].req.seccion, now)
    /\ inflight' = [inflight EXCEPT ![s].pc = "log"]
    /\ resp' = NoResp
    /\ UNCHANGED <<api_key, predio_logs, user_sessions, served, errors>>

\* Lines 87-91: the database runs the log insert; its result is on its way.
LogDone(s) ==
    /\ inflight[s].pc = "log"
    /\ \E now \in Nows : predio_logs' = InsertLog(predio_logs, inflight[s].req, now)
    /\ inflight' = [inflight EXCEPT ![s].pc = "answer"]
    /\ resp' = NoResp
    /\ UNCHANGED <<api_key, predios, user_sessions, served, errors>>

\* Line 92: the result of the log insert arrives; the handler answers ok.
PostAnswered(s) ==
    /\ inflight[s].pc = "answer"
    /\ inflight[s].op = "POST /predios"
    /\ inflight' = [inflight EXCEPT ![s] = Idle]
    /\ resp' = Response("POST /predios", 200, [ok |-> TRUE])
    /\ UNCHANGED <<api_key, predios, predio_logs, user_sessions, served, errors>>

PostFailedStillLogs(s) ==
    /\ inflight[s].pc # "idle"
    /\ inflight[s].op = "POST /predios"
    /\ IF inflight[s].pc = "upsert"
       THEN /\ inflight' = [inflight EXCEPT ![s].pc = "log"]
            /\ resp' = NoResp
            /\ errors' = errors
       ELSE /\ inflight' = [inflight EXCEPT ![s] = Idle]
            /\ resp' = DbError("POST /predios")
            /\ errors' = TRUE
    /\ UNCHANGED <<api_key, predios, predio_logs, user_sessions, served>>

PostFailedUndoesUpsert(s) ==
    /\ inflight[s].pc # "idle"
    /\ inflight[s].op = "POST /predios"
    /\ predios' = IF inflight[s].pc = "log"
                  THEN predios \ RowsOf(predios, inflight[s].req.id_predio)
                  ELSE predios
    /\ inflight' = [inflight EXCEPT ![s] = Idle]
    /\ resp' = DbError("POST /predios")
    /\ errors' = TRUE
    /\ UNCHANGED <<api_key, predio_logs, user_sessions, served>>

\* Lines 93-96: an awaited query rejects, the statement refused or its result
\* lost after it ran; the handler logs the error and answers db_error.
PostFailed(s) ==
    /\ inflight[s].pc # "idle"
    /\ inflight[s].op = "POST /predios"
    /\ inflight' = [inflight EXCEPT ![s] = Idle]
    /\ resp' = DbError("POST /predios")
    /\ errors' = TRUE
    /\ UNCHANGED <<api_key, predios, predio_logs, user_sessions, served>>

\* ---------------------------------------------------------------- POST /login
SessionRow(usuario, secciones, now) ==
    [usuario |-> usuario, secciones |-> secciones, created_at |-> now]

InsertSessionUpserts(sessions, usuario, secciones, now) ==
    IF \E i \in DOMAIN sessions : sessions[i].usuario = usuario
    THEN [i \in DOMAIN sessions |->
             IF sessions[i].usuario = usuario
             THEN SessionRow(usuario, secciones, now) ELSE sessions[i]]
    ELSE Append(sessions, SessionRow(usuario, secciones, now))

\* insert into user_sessions (usuario, secciones, created_at) values (.., .., now())
InsertSession(sessions, usuario, secciones, now) ==
    Append(sessions, SessionRow(usuario, secciones, now))

\* Lines 101-104: destructure, validate, and send the insert.
PostLogin(body) ==
    LET usuario == body.usuario
        secciones == IF body.secciones = NoText THEN NullText ELSE body.secciones
    IN  /\ Authorized
        /\ served < MaxServed
        /\ served' = served + 1
        /\ IF Falsy(usuario)
           THEN /\ resp' = Response("POST /login", 400, [error |-> "usuario requerido"])
                /\ inflight' = inflight
           ELSE /\ Busy # Slots
                /\ inflight' = [inflight EXCEPT ![FreeSlot] =
                                    [op |-> "POST /login", pc |-> "insert",
                                     req |-> [usuario |-> usuario, secciones |-> secciones]]]
                /\ resp' = NoResp
        /\ UNCHANGED <<api_key, predios, predio_logs, user_sessions, errors>>

\* Lines 104-107: the database runs the insert; its result is on its way.
LoginDone(s) ==
    /\ inflight[s].pc = "insert"
    /\ \E now \in Nows :
          user_sessions' = InsertSession(user_sessions, inflight[s].req.usuario,
                                         inflight[s].req.secciones, now)
    /\ inflight' = [inflight EXCEPT ![s].pc = "answer"]
    /\ resp' = NoResp
    /\ UNCHANGED <<api_key, predios, predio_logs, served, errors>>

\* Line 108: the result of the insert arrives; the handler answers ok.
LoginAnswered(s) ==
    /\ inflight[s].pc = "answer"
    /\ inflight[s].op = "POST /login"
    /\ inflight' = [inflight EXCEPT ![s] = Idle]
    /\ resp' = Response("POST /login", 200, [ok |-> TRUE])
    /\ UNCHANGED <<api_key, predios, predio_logs, user_sessions, served, errors>>

\* Lines 109-112: the awaited query rejects, the insert refused or its result
\* lost after it ran.
LoginFailed(s) ==
    /\ inflight[s].pc # "idle"
    /\ inflight[s].op = "POST /login"
    /\ inflight' = [inflight EXCEPT ![s] = Idle]
    /\ resp' = DbError("POST /login")
    /\ errors' = TRUE
    /\ UNCHANGED <<api_key, predios, predio_logs, user_sessions, served>>

\* ---------------------------------------------------------------- GET handlers
Reads == {"GET /predios", "GET /stats", "GET /users", "GET /activity"}

\* The handler of a GET route runs up to its await: it sends its select, with
\* the parameters req it worked out, and waits.
Received(op, req) ==
    /\ Authorized
    /\ Busy # Slots
    /\ served < MaxServed
    /\ served' = served + 1
    /\ inflight' = [inflight EXCEPT ![FreeSlot] = [op |-> op, pc |-> "select", req |-> req]]
    /\ resp' = NoResp
    /\ UNCHANGED <<api_key, predios, predio_logs, user_sessions, errors>>

\* The database runs the select of the request in slot s over the tables as they
\* are now: its result, a rejection or one of the row sequences the select may
\* give, is on its way to the handler.
Selected(s, op, failed, results) ==
    /\ inflight[s].pc = "select"
    /\ inflight[s].op = op
    /\ \E rows \in results :
          inflight' = [inflight EXCEPT ![s] =
                          [op |-> op, pc |-> "answer", failed |-> failed, rows |-> rows]]
    /\ resp' = NoResp
    /\ UNCHANGED <<api_key, predios, predio_logs, user_sessions, served, errors>>

\* Lines 68, 142, 161, 179: the rows arrive; the handler sends them.
GetAnswered(s) ==
    /\ inflight[s].pc = "answer"
    /\ inflight[s].op \in Reads
    /\ ~inflight[s].failed
    /\ inflight' = [inflight EXCEPT ![s] = Idle]
    /\ resp' = Response(inflight[s].op, 200, inflight[s].rows)
    /\ UNCHANGED <<api_key, predios, predio_logs, user_sessions, served, errors>>

\* Lines 69-72, 143-146, 162-165, 180-183: the awaited select rejects, refused
\* by the database, not run at all, or its result lost.
GetFailed(s) ==
    /\ inflight[s].pc \in {"select", "answer"}
    /\ inflight[s].op \in Reads
    /\ inflight' = [inflight EXCEPT ![s] = Idle]
    /\ resp' = DbError(inflight[s].op)
    /\ errors' = TRUE
    /\ UNCHANGED <<api_key, predios, predio_logs, user_sessions, served>>

\* ---------------------------------------------------------------- GET /predios
\* A query string is a sequence of pieces: "," , " " , or a run of other characters.
RECURSIVE SplitComma(_)
\* String.prototype.split(','): the segments between commas (at least one segment).
SplitComma(q) ==
    IF \A i \in DOMAIN q : q[i] # "," THEN <<q>>
    ELSE LET k == CHOOSE i \in DOMAIN q : q[i] = "," /\ \A j \in 1..(i - 1) : q[j] # ","
         IN  <<SubSeq(q, 1, k - 1)>> \o SplitComma(SubSeq(q, k + 1, Len(q)))

\* String.prototype.trim(): drop the blanks at both ends.
Trim(seg) ==
    LET keep == {i \in DOMAIN seg : seg[i] # " "}
    IN  IF keep = {} THEN <<>>
        ELSE SubSeq(seg, CHOOSE i \in keep : \A j \in keep : i <= j,
                         CHOOSE i \in keep : \A j \in keep : i >= j)

\* The text of a trimmed segment: a single piece is that piece; anything longer is
\* a text no stored seccion of the model equals.
SegText(seg) == IF Len(seg) = 1 THEN seg[1] ELSE [pieces |-> seg]

\* (req.query.secciones || '').split(',').map(s => s.trim()).filter(Boolean)
ParseSecciones(q) ==
    LET text == IF FalsyText(q) THEN <<>> ELSE q
        segs == SplitComma(text)
    IN  SelectSeq([i \in DOMAIN segs |-> Trim(segs[i])], LAMBDA seg : seg # <<>>)

ListRowsIgnoresFilter(table, secciones) == table

ListRowsResolvesSeccion(table, secciones) ==
    IF secciones # <<>>
    THEN {p \in table : p.seccion = Null \/ \E i \in DOMAIN secciones : p.seccion = SegText(secciones[i])}
    ELSE table

\* where seccion = any($1): a NULL seccion matches nothing.
ListRows(table, secciones) ==
    IF secciones # <<>>
    THEN {p \in table : p.seccion # Null /\ \E i \in DOMAIN secciones : p.seccion = SegText(secciones[i])}
    ELSE table

ProjectStatusOnly(p) == [id_predio |-> p.id_predio, status |-> "neutral"]

\* select id_predio, status
Project(p) == [id_predio |-> p.id_predio, status |-> p.status]

\* The answers the query may give: the selected rows in any order (no ORDER BY).
ListPredios(table, secciones) ==
    {[i \in DOMAIN s |-> Project(s[i])] : s \in SeqsOf(ListRows(table, secciones))}

\* Lines 59-67, up to the await: the secciones asked for go with the select.
GetPredios(q) == Received("GET /predios", ParseSecciones(q))

\* Line 67: the database runs the select.
PrediosSelected(s) ==
    Selected(s, "GET /predios", FALSE, ListPredios(predios, inflight[s].req))

\* ---------------------------------------------------------------- GET /stats
Sentinel == "(sin seccion)"

\* Log rows the correlated subquery keeps: same parcel, seccion not null.
SeccionLogs(log, id) ==
    {i \in DOMAIN log : log[i].id_predio = id /\ log[i].seccion # Null}

LatestOldestFirst(log, id) ==
    {i \in SeccionLogs(log, id) :
        \A j \in SeccionLogs(log, id) : log[i].created_at <= log[j].created_at}

LatestCountsNullSeccion(log, id) ==
    LET all == {i \in DOMAIN log : log[i].id_predio = id}
    IN  {i \in all : \A j \in all : log[j].created_at <= log[i].created_at}

\* order by pl.created_at desc limit 1: a row of the greatest created_at; rows
\* that tie for it may come in either order.
Latest(log, id) ==
    {i \in SeccionLogs(log, id) :
        \A j \in SeccionLogs(log, id) : log[j].created_at <= log[i].created_at}

\* The values the scalar subquery may give (NULL when it selects no row).
LoggedSeccion(log, id) ==
    IF Latest(log, id) = {} THEN {Null} ELSE {log[i].seccion : i \in Latest(log, id)}

EffectiveSeccionStoredOnly(p, log) == {p.seccion}

\* coalesce(p.seccion, (subquery))
EffectiveSeccion(p, log) ==
    IF p.seccion # Null THEN {p.seccion} ELSE LoggedSeccion(log, p.id_predio)

\* The CTE base: each row of predios with its resolved seccion.
Bases(table, log) ==
    LET values == UNION {EffectiveSeccion(p, log) : p \in table}
    IN  {b \in [table -> values] : \A p \in table : b[p] \in EffectiveSeccion(p, log)}

CountStatusCountsAll(b, g, status) == Cardinality({p \in DOMAIN b : b[p] = g})

\* count(*) filter (where status = ...)
CountStatus(b, g, status) ==
    Cardinality({p \in DOMAIN b : b[p] = g /\ p.status = status})

\* One output row of the group whose base.seccion is g (NULL is a group too).
StatsRowKeepsNull(b, g) ==
    [seccion |-> g,
     rojo    |-> CountStatus(b, g, "rojo"),
     azul    |-> CountStatus(b, g, "azul"),
     neutral |-> CountStatus(b, g, "neutral"),
     total   |-> Cardinality({p \in DOMAIN b : b[p] = g})]

StatsRow(b, g) ==
    [seccion |-> IF g = Null THEN Sentinel ELSE g,
     rojo    |-> CountStatus(b, g, "rojo"),
     azul    |-> CountStatus(b, g, "azul"),
     neutral |-> CountStatus(b, g, "neutral"),
     total   |-> Cardinality({p \in DOMAIN b : b[p] = g})]

\* Code points of the section labels of the model, for the ORDER BY on text.
CodePoints(label) ==
    CASE label = "356" -> <<51, 53, 54>>
      [] label = "357" -> <<51, 53, 55>>
      [] label = Sentinel -> <<40, 115, 105, 110, 32, 115, 101, 99, 99, 105, 111, 110, 41>>
      [] OTHER -> <<>>

\* a <= b for sequences of code points, compared position by position.
LexLeq(a, b) ==
    \/ \E k \in 1..Min(Len(a), Len(b)) :
          /\ \A i \in 1..(k - 1) : a[i] = b[i]
          /\ a[k] < b[k]
    \/ /\ Len(a) <= Len(b)
       /\ \A i \in 1..Len(a) : a[i] = b[i]

\* group by seccion names the input column base.seccion; order by seccion names
\* the output column, the label.
StatsOf(b) ==
    LET groups == {b[p] : p \in DOMAIN b}
        label(g) == IF g = Null THEN Sentinel ELSE g
    IN  {[i \in DOMAIN s |-> StatsRow(b, s[i])] :
            s \in {t \in SeqsOf(groups) :
                     \A i, j \in DOMAIN t :
                        i < j => LexLeq(CodePoints(label(t[i])), CodePoints(label(t[j])))}}

StatsResults(table, log) == UNION {StatsOf(b) : b \in Bases(table, log)}

\* Lines 117-119, up to the await: the select has no parameters.
GetStats == Received("GET /stats", <<>>)

StatsSelectedWritesBack(s) ==
    /\ inflight[s].pc = "select"
    /\ inflight[s].op = "GET /stats"
    /\ \E b \in Bases(predios, predio_logs) : \E rows \in StatsOf(b) :
        /\ inflight' = [inflight EXCEPT ![s] =
                            [op |-> "GET /stats", pc |-> "answer", failed |-> FALSE,
                             rows |-> rows]]
        /\ predios' = {[p EXCEPT !.seccion = b[p]] : p \in predios}
    /\ resp' = NoResp
    /\ UNCHANGED <<api_key, predio_logs, user_sessions, served, errors>>

\* Lines 119-141: the database runs the select.
StatsSelected(s) ==
    Selected(s, "GET /stats", FALSE, StatsResults(predios, predio_logs))

\* ---------------------------------------------------------------- GET /users
RECURSIVE JoinComma(_)
\* The texts of s joined with ','.
JoinComma(s) ==
    IF Len(s) = 0 THEN <<>>
    ELSE IF Len(s) = 1 THEN s[1]
    ELSE s[1] \o <<",">> \o JoinComma(Tail(s))

SessionsOf(sessions, u) == {i \in DOMAIN sessions : sessions[i].usuario = u}

LastSeenIsFirst(sessions, u) ==
    CHOOSE t \in {sessions[i].created_at : i \in SessionsOf(sessions, u)} :
        \A i \in SessionsOf(sessions, u) : t <= sessions[i].created_at

\* max(created_at)
LastSeen(sessions, u) ==
    CHOOSE t \in {sessions[i].created_at : i \in SessionsOf(sessions, u)} :
        \A i \in SessionsOf(sessions, u) : sessions[i].created_at <= t

\* string_agg(distinct secciones, ','): NULLs are skipped; NULL when nothing is left.
AggSecciones(sessions, u) ==
    LET texts == {sessions[i].secciones : i \in SessionsOf(sessions, u)} \ {NullText}
    IN  IF texts = {} THEN {NullText} ELSE {JoinComma(s) : s \in SeqsOf(texts)}

UsersResults(sessions) ==
    LET usuarios == {sessions[i].usuario : i \in DOMAIN sessions}
        orders == {s \in SeqsOf(usuarios) :
                     \A i, j \in DOMAIN s :
                        i < j => LastSeen(sessions, s[i]) >= LastSeen(sessions, s[j])}
        aggs == {a \in [usuarios -> UNION {AggSecciones(sessions, u) : u \in usuarios}] :
                     \A u \in usuarios : a[u] \in AggSecciones(sessions, u)}
    IN  {[i \in DOMAIN s |->
            [usuario |-> s[i], last_seen |-> LastSeen(sessions, s[i]), secciones |-> a[s[i]]]] :
         s \in orders, a \in aggs}

\* Lines 151-152, up to the await: the select has no parameters.
GetUsers == Received("GET /users", <<>>)

\* Lines 152-160: the database runs the select.
UsersSelected(s) ==
    Selected(s, "GET /users", FALSE, UsersResults(user_sessions))

\* ---------------------------------------------------------------- GET /activity
ActivityCap == 500
DefaultLimit == 100

Digits == {"0", "1", "2", "3", "4", "5", "6", "7", "8", "9"}
DigitValue(c) ==
    CASE c = "0" -> 0 [] c = "1" -> 1 [] c = "2" -> 2 [] c = "3" -> 3 [] c = "4" -> 4
      [] c = "5" -> 5 [] c = "6" -> 6 [] c = "7" -> 7 [] c = "8" -> 8 [] c = "9" -> 9

Number(n) == [nan |-> FALSE, val |-> n]
NotANumber == [nan |-> TRUE, val |-> 0]

RECURSIVE DigitsValue(_, _)
\* The value of the leading digits of s, continuing from acc.
DigitsValue(s, acc) ==
    IF s = <<>> \/ s[1] \notin Digits THEN acc
    ELSE DigitsValue(Tail(s), 10 * acc + DigitValue(s[1]))

RECURSIVE SkipBlanks(_)
SkipBlanks(s) == IF s # <<>> /\ s[1] = " " THEN SkipBlanks(Tail(s)) ELSE s

\* parseInt(text, 10) of a text given as its characters: leading blanks, an
\* optional sign, then digits up to the first other character; NaN without digits.
ParseInt(text) ==
    LET t == SkipBlanks(text)
        signed == t # <<>> /\ t[1] \in {"-", "+"}
        body == IF signed THEN Tail(t) ELSE t
    IN  IF body = <<>> \/ body[1] \notin Digits THEN NotANumber
        ELSE Number(IF signed /\ t[1] = "-" THEN 0 - DigitsValue(body, 0)
                    ELSE DigitsValue(body, 0))

\* Math.min(x, cap): NaN if x is NaN.
MathMin(x, cap) == IF x.nan THEN NotANumber ELSE Number(Min(x.val, cap))

LimitOfUncapped(q) ==
    IF FalsyText(q) THEN Number(DefaultLimit) ELSE ParseInt(q)

\* Math.min(parseInt(req.query.limit || '100', 10), 500)
LimitOf(q) ==
    MathMin(IF FalsyText(q) THEN Number(DefaultLimit) ELSE ParseInt(q), ActivityCap)

ActivityRow(r) ==
    [id_predio |-> r.id_predio, status |-> r.status, seccion |-> r.seccion,
     usuario |-> r.usuario, created_at |-> r.created_at]

\* A function value worked out once, where it is compared, not at each use.
Force(f) == IF f = f THEN f ELSE f

\* Rows that share their created_at with another row.
Tied(log) ==
    LET stamp == Force([i \in DOMAIN log |-> log[i].created_at])
    IN  {i \in DOMAIN log : \E j \in DOMAIN log : j # i /\ stamp[j] = stamp[i]}

ActivityOrderAscending(log, tie) ==
    [i \in DOMAIN log |-> ActivityRow(log[i])]

\* order by created_at desc, rows of equal created_at in the order tie lists them:
\* a row comes after the rows of greater created_at and after the rows tie lists
\* before it among those of equal created_at.
ActivityOrder(log, tie) ==
    LET n == Len(log)
        stamp == Force([i \in 1..n |-> log[i].created_at])
        tiepos == Force([i \in Range(tie) |-> CHOOSE k \in DOMAIN tie : tie[k] = i])
        pos == Force([i \in 1..n |->
                  1 + Cardinality({j \in 1..n : stamp[j] > stamp[i]})
                    + (IF i \in Range(tie)
                       THEN Cardinality({j \in Range(tie) :
                               stamp[j] = stamp[i] /\ tiepos[j] < tiepos[i]})
                       ELSE 0)])
        at == Force([r \in 1..n |-> CHOOSE i \in 1..n : pos[i] = r])
    IN  [r \in 1..n |-> ActivityRow(log[at[r]])]

\* limit $1 with a non-negative count: the first rows of an ordering.
ActivityResults(log, limit) ==
    {SubSeq(ActivityOrder(log, tie), 1, Min(limit, Len(log))) : tie \in SeqsOf(Tied(log))}

\* Lines 170-172, up to the await: the limit goes with the select.
GetActivity(q) == Received("GET /activity", [query |-> q, limit |-> LimitOf(q)])

\* Lines 172-178: the database runs the select; it rejects a NaN or negative
\* LIMIT.
ActivitySelected(s) ==
    /\ inflight[s].pc = "select"
    /\ inflight[s].op = "GET /activity"
    /\ LET limit == inflight[s].req.limit
       IN  IF ~limit.nan /\ limit.val >= 0
           THEN Selected(s, "GET /activity", FALSE,
                         ActivityResults(predio_logs, limit.val))
           ELSE Selected(s, "GET /activity", TRUE, {<<>>})

\* ---------------------------------------------------------------- inputs
\* Bodies of POST /predios: status writes that pass validation, and bodies that
\* fail each check.
Body(id, status, seccion, usuario) ==
    [id_predio |-> id, status |-> status, seccion |-> seccion, usuario |-> usuario]

Bodies ==
    {Body("P1", "rojo", "356", "ana"),
     Body("P1", "azul", Undefined, Undefined),
     Body("P2", Undefined, "357", "ana"),
     Body(Undefined, "rojo", "356", "ana"),
     Body("", "azul", Undefined, Undefined),
     Body("P1", "verde", "356", Undefined),
     Body("P2", Null, Undefined, Undefined)}

LoginBody(usuario, secciones) == [usuario |-> usuario, secciones |-> secciones]

LoginBodies ==
    {LoginBody("ana", NoText),
     LoginBody(Undefined, <<"356">>), LoginBody("", NoText)}

\* Values of the secciones query parameter.
SeccionQueries == {NoText, <<" ", "357", ",", ",", "356", " ">>}

\* Values of the limit query parameter, as their characters.
LimitQueries == {NoText, <<"-", "1">>}

\* ---------------------------------------------------------------- specification
\* initTables creates the tables "if not exists": a table an earlier run filled
\* keeps its rows.  The contents the server starts with: none, or what an
\* accepted write of P1 and a login of ana left.
Stored ==
    {[predios |-> {}, predio_logs |-> <<>>, user_sessions |-> <<>>],
     [predios |-> {NewRow("P1", "rojo", "356", 0)},
      predio_logs |-> <<LogRow(Destructure(Body("P1", "rojo", "356", "ana")), 0)>>,
      user_sessions |-> <<SessionRow("ana", <<"356">>, 0)>>]}

Init ==
    /\ api_key \in {"", "k"}
    /\ \E st \in Stored :
          /\ predios = st.predios
          /\ predio_logs = st.predio_logs
          /\ user_sessions = st.user_sessions
    /\ inflight = [s \in Slots |-> Idle]
    /\ served = 0
    /\ errors = FALSE
    /\ resp = NoResp

Next ==
    \/ Health
    \/ \E route \in Routes : Unauthorized(route)
    \/ \E body \in Bodies : PostPredios(body)
    \/ \E s \in Slots : UpsertDone(s)
    \/ \E s \in Slots : LogDone(s)
    \/ \E s \in Slots : PostAnswered(s)
    \/ \E s \in Slots : PostFailed(s)
    \/ \E body \in LoginBodies : PostLogin(body)
    \/ \E s \in Slots : LoginDone(s)
    \/ \E s \in Slots : LoginAnswered(s)
    \/ \E s \in Slots : LoginFailed(s)
    \/ \E q \in SeccionQueries : GetPredios(q)
    \/ \E s \in Slots : PrediosSelected(s)
    \/ GetStats
    \/ \E s \in Slots : StatsSelected(s)
    \/ GetUsers
    \/ \E s \in Slots : UsersSelected(s)
    \/ \E q \in LimitQueries : GetActivity(q)
    \/ \E s \in Slots : ActivitySelected(s)
    \/ \E s \in Slots : GetAnswered(s)
    \/ \E s \in Slots : GetFailed(s)

Spec == Init /\ [][Next]_vars

\* ---------------------------------------------------------------- stores for GET /stats
\* GET /stats is a function of the two tables.  SpecStats starts from the tables
\* that status writes leave behind: predios rows with a valid status and any
\* seccion (a write whose log insert failed leaves a row without its log row),
\* log rows only for parcels that have a row, each created_at any instant.
StatsMaxLog == 3        \* rows of predio_logs in SpecStats

StatsTables ==
    {{NewRow("P1", st, sec, 0)} : st \in StatusEnum, sec \in {Null, "356"}}
    \cup {{NewRow("P1", st, Null, 0), NewRow("P2", q.status, q.seccion, 0)} :
             st \in {"rojo", "neutral"},
             q \in {[status |-> "azul", seccion |-> Null],
                    [status |-> "rojo", seccion |-> "356"],
                    [status |-> "neutral", seccion |-> Sentinel]}}

\* What the logged writes asked for: for a single parcel a seccion out of two or
\* none, for two parcels 356 or none.
StatsRequests(ids) ==
    [id_predio : ids, status : {"rojo"},
     seccion : IF Cardinality(ids) = 1 THEN {Null, "356", "357"} ELSE {Null, "356"},
     usuario : {Null}]

\* created_at of n rows: any instant for each.
Stamps(n) == [1..n -> Instants]

StatsLogs(ids) ==
    UNION {{[i \in 1..n |-> LogRow(w[i], t[i])] :
               w \in [1..n -> StatsRequests(ids)], t \in Stamps(n)} :
           n \in 0..StatsMaxLog}

InitStats ==
    /\ api_key = ""
    /\ predios \in StatsTables
    /\ predio_logs \in StatsLogs(Ids(predios))
    /\ user_sessions = <<>>
    /\ inflight = [s \in Slots |-> Idle]
    /\ served = MaxServed - 1
    /\ errors = FALSE
    /\ resp = NoResp

NextStats ==
    \/ GetStats
    \/ \E s \in Slots : StatsSelected(s)
    \/ \E s \in Slots : GetAnswered(s)
    \/ \E s \in Slots : GetFailed(s)

SpecStats == InitStats /\ [][NextStats]_vars

\* ---------------------------------------------------------------- logs for GET /activity
\* GET /activity is a function of predio_logs and the limit parameter.
\* SpecActivity starts from logs that runs of accepted status writes leave
\* behind, short ones and ones around the cap, with created_at rising from row
\* to row except at one place where two consecutive rows share it or swap it.
ActivityExtra == 1      \* rows beyond the cap in the long logs
ActivityShort == 5      \* rows of the short logs

ActivityLogSizes ==
    (0..ActivityShort) \cup (ActivityCap..(ActivityCap + ActivityExtra))

\* Rows k and k + 1 are out of step; 0 for no such pair.  In a long log the
\* pair is the one that straddles the cap.
TieSpots(n) ==
    {0} \cup (IF n <= ActivityShort THEN 1..(n - 1)
              ELSE {k \in {n - ActivityCap} : k >= 1})

\* created_at rises from row to row, except that rows tie and tie + 1 share it
\* (back false) or bear each other's (back true: the later row is the older).
WrittenLog(n, tie, back) ==
    [i \in 1..n |->
        LogRow([id_predio |-> IF i % 2 = 1 THEN "P1" ELSE "P2",
                status    |-> IF i % 3 = 0 THEN "rojo" ELSE IF i % 3 = 1 THEN "azul" ELSE "neutral",
                seccion   |-> IF i % 2 = 1 THEN "356" ELSE Null,
                usuario   |-> IF i % 2 = 1 THEN "ana" ELSE Null],
               IF tie = 0 THEN i
               ELSE IF back THEN (IF i = tie THEN i + 1 ELSE IF i = tie + 1 THEN i - 1 ELSE i)
               ELSE IF i > tie THEN i - 1 ELSE i)]

\* Values of the limit parameter in SpecActivity.
ActivityLimitQueries ==
    {NoText, <<>>, <<"0">>, <<"1">>, <<" ", "2", "x">>, <<"5", "0", "0">>,
     <<"9", "9", "9">>, <<"-", "1">>, <<"x">>}

InitActivity ==
    /\ api_key = ""
    /\ \E n \in ActivityLogSizes : \E tie \in TieSpots(n) :
       \E back \in {b \in BOOLEAN : tie # 0 \/ ~b} :
          /\ predio_logs = WrittenLog(n, tie, back)
          /\ predios = {NewRow(predio_logs[i].id_predio, predio_logs[i].status,
                                  predio_logs[i].seccion, predio_logs[i].created_at) :
                           i \in {k \in {n - 1, n} : k >= 1}}
    /\ user_sessions = <<>>
    /\ inflight = [s \in Slots |-> Idle]
    /\ served = MaxServed - 1
    /\ errors = FALSE
    /\ resp = NoResp

NextActivity ==
    \/ \E q \in ActivityLimitQueries : GetActivity(q)
    \/ \E s \in Slots : ActivitySelected(s)
    \/ \E s \in Slots : GetAnswered(s)
    \/ \E s \in Slots : GetFailed(s)

SpecActivity == InitActivity /\ [][NextActivity]_vars

\* ---------------------------------------------------------------- sessions for GET /users
\* GET /users is a function of user_sessions.  SpecUsers starts from the tables
\* that runs of accepted logins leave behind.
UsersMaxLogins == 3     \* rows of user_sessions in SpecUsers

\* Bodies of accepted logins.
UsersLogins == {LoginBody(u, t) : u \in {"ana", "beto"}, t \in {NoText, <<"356">>}}

RECURSIVE SessionsAfter(_, _)
\* user_sessions after the logins of the sequence ran in order, the i-th at t[i].
SessionsAfter(logins, t) ==
    IF logins = <<>> THEN <<>>
    ELSE LET n == Len(logins)
             body == logins[n]
         IN  InsertSession(SessionsAfter(SubSeq(logins, 1, n - 1), t),
                           body.usuario,
                           IF body.secciones = NoText THEN NullText ELSE body.secciones,
                           t[n])

UsersSessions ==
    UNION {{SessionsAfter(logins, t) : logins \in [1..n -> UsersLogins], t \in Stamps(n)} :
           n \in 0..UsersMaxLogins}

InitUsers ==
    /\ api_key = ""
    /\ user_sessions \in UsersSessions
    /\ predios = {}
    /\ predio_logs = <<>>
    /\ inflight = [s \in Slots |-> Idle]
    /\ served = MaxServed - 1
    /\ errors = FALSE
    /\ resp = NoResp

NextUsers ==
    \/ GetUsers
    \/ \E s \in Slots : UsersSelected(s)
    \/ \E s \in Slots : GetAnswered(s)
    \/ \E s \in Slots : GetFailed(s)

SpecUsers == InitUsers /\ [][NextUsers]_vars

\* ================================================================ claims
OkPost == Response("POST /predios", 200, [ok |-> TRUE])

\* The step in which the database runs the upsert of the request in slot s.
UpsertStep(s) == inflight[s].pc = "upsert" /\ inflight'[s].pc = "log"

\* The step in which the database runs the select of the read in slot s.
SelectStep(s) == inflight[s].pc = "select" /\ inflight'[s].pc = "answer"

\* ---------------------------------------------------------------- C1
\* C1: right after the upsert of an accepted status write (id, s), from any prior
\* state of the stores, every answer of the unfiltered list has exactly one row
\* for id, and its status is s; a write is answered ok only after its upsert;
\* the select of an unfiltered list, when the database runs it, returns such an
\* answer over the table of that moment, however long before the list was
\* received, and the list is answered with the rows its select returned.
C1_UpsertThenList ==
    [][\A s \in Slots :
          /\ UpsertStep(s) =>
                /\ ListPredios(predios', ParseSecciones(NoText)) # {}
                /\ \A rows \in ListPredios(predios', ParseSecciones(NoText)) :
                      /\ \E i \in DOMAIN rows :
                            /\ rows[i].id_predio = inflight[s].req.id_predio
                            /\ rows[i].status = inflight[s].req.status
                      /\ \A i \in DOMAIN rows :
                            rows[i].id_predio = inflight[s].req.id_predio
                               => rows[i].status = inflight[s].req.status
          /\ (inflight[s].pc = "upsert" /\ inflight'[s].pc # "upsert" /\ ~UpsertStep(s)) =>
                resp' = DbError("POST /predios")
          /\ (inflight[s].pc = "idle" /\ inflight'[s].pc = "select" /\ GetPredios(NoText)) =>
                inflight'[s].req = ParseSecciones(NoText)
          /\ (SelectStep(s) /\ inflight[s].op = "GET /predios"
                 /\ inflight[s].req = ParseSecciones(NoText)) =>
                /\ ~inflight'[s].failed
                /\ inflight'[s].rows \in ListPredios(predios, ParseSecciones(NoText))
          /\ (inflight[s].pc = "answer" /\ resp'.op = "GET /predios" /\ resp'.code = 200
                 /\ inflight'[s] = Idle) =>
                resp'.body = inflight[s].rows]_vars

\* A write of (P1, azul) over a parcel last logged as rojo was answered ok, and
\* the unfiltered list that followed was answered with P1 as azul.
C1_Witness ==
    /\ resp = Response("GET /predios", 200, <<[id_predio |-> "P1", status |-> "azul"]>>)
    /\ Len(predio_logs) = 2
    /\ predio_logs[1].id_predio = "P1" /\ predio_logs[1].status = "rojo"
    /\ predio_logs[2].id_predio = "P1" /\ predio_logs[2].status = "azul"
    /\ ~errors
    /\ Busy = {}

\* ---------------------------------------------------------------- C2
\* The step in which the database runs the log insert of the request in slot s.
LogStep(s) == inflight[s].pc = "log" /\ inflight'[s].pc = "answer"

\* C2: predios never holds two rows for one parcel id, and its ids grow only by
\* the id of the write whose upsert runs.  A status write is answered ok only
\* after its log insert ran, which follows its upsert; predio_logs grows only in
\* the step of a write's log insert, by that write's row, once per write; every
\* logged id has exactly one row in predios.
C2_OneRowPerIdOneLogPerWrite ==
    [][/\ \A id \in Ids(predios') : Cardinality(RowsOf(predios', id)) = 1
       /\ \A i \in DOMAIN predio_logs' :
             Cardinality(RowsOf(predios', predio_logs'[i].id_predio)) = 1
       /\ \/ /\ Ids(predios') = Ids(predios)
             /\ Cardinality(predios') = Cardinality(predios)
          \/ \E s \in Slots :
                /\ UpsertStep(s)
                /\ Ids(predios') = Ids(predios) \cup {inflight[s].req.id_predio}
       /\ IF \E s \in Slots : LogStep(s)
          THEN /\ Len(predio_logs') = Len(predio_logs) + 1
               /\ \E s \in Slots :
                     /\ LogStep(s)
                     /\ predio_logs'[Len(predio_logs')].id_predio = inflight[s].req.id_predio
                     /\ predio_logs'[Len(predio_logs')].status = inflight[s].req.status
          ELSE predio_logs' = predio_logs
       /\ \A s \in Slots :
             /\ (inflight'[s].pc = "log" /\ inflight[s].pc # "log") => UpsertStep(s)
             /\ (inflight'[s].pc = "answer" /\ inflight[s].pc = "log") =>
                   Len(predio_logs') = Len(predio_logs) + 1
       /\ resp' = OkPost =>
             \E s \in Slots :
                /\ inflight[s].pc = "answer"
                /\ inflight[s].op = "POST /predios"
                /\ inflight'[s] = Idle
                /\ predio_logs' = predio_logs]_vars

\* The same parcel written twice: one row in predios, two rows in predio_logs.
C2_Witness ==
    /\ Len(predio_logs) = 2
    /\ predio_logs[1].id_predio = "P1"
    /\ predio_logs[2].id_predio = "P1"
    /\ predio_logs[1].status # predio_logs[2].status
    /\ Cardinality(RowsOf(predios, "P1")) = 1
    /\ Busy = {}

\* ---------------------------------------------------------------- C3
\* The body is one the claim calls invalid: no parcel id, or a status given that
\* is none of rojo, azul, neutral.
InvalidBody(body) ==
    \/ body.id_predio \in {Undefined, Null, ""}
    \/ body.status \notin {Undefined, "rojo", "azul", "neutral"}

\* C3: a status write with a missing or empty parcel id, or with a status other
\* than rojo, azul, neutral, is answered 400 and leaves predios, predio_logs,
\* user_sessions and the requests in flight as they were, so the list shows the
\* same rows after it as before it.
C3_InvalidWriteRejected ==
    [][\A body \in Bodies :
          (InvalidBody(body) /\ PostPredios(body)) =>
             /\ resp'.op = "POST /predios"
             /\ resp'.code = 400
             /\ UNCHANGED <<predios, predio_logs, user_sessions, inflight>>
             /\ ListPredios(predios', ParseSecciones(NoText))
                  = ListPredios(predios, ParseSecciones(NoText))]_vars

\* A write with an unrecognised status was answered 400 over a populated store.
C3_Witness ==
    /\ resp = Response("POST /predios", 400, [error |-> "status inválido"])
    /\ predios # {}
    /\ predio_logs # <<>>

\* ---------------------------------------------------------------- C4
\* C4: every row of predios has a status among rojo, azul, neutral, and a write
\* with a parcel id and no status is taken up with status neutral, which its
\* upsert stores.
C4_StatusEnum ==
    [][/\ \A p \in predios' : p.status \in {"rojo", "azul", "neutral"}
       /\ \A body \in Bodies :
             (body.status = Undefined /\ ~InvalidBody(body) /\ PostPredios(body)) =>
                \E s \in Slots :
                   /\ inflight[s].pc = "idle"
                   /\ inflight'[s].pc = "upsert"
                   /\ inflight'[s].req.status = "neutral"
       /\ \A s \in Slots :
             UpsertStep(s) =>
                \A p \in RowsOf(predios', inflight[s].req.id_predio) :
                   p.status = inflight[s].req.status]_vars

\* The write of P2 that gave no status is stored as neutral.
C4_Witness ==
    \E p \in predios : p.id_predio = "P2" /\ p.seccion = "357" /\ p.status = "neutral"

\* ---------------------------------------------------------------- C5
\* C5: with several writes of one parcel id in flight, each upsert is one step:
\* after it predios has exactly one row for the id, carrying the status and the
\* seccion of that write, and the rows of other ids are untouched; a row changes
\* in no other step.
C5_AtomicUpsert ==
    [][/\ \A s \in Slots :
             UpsertStep(s) =>
                /\ \E p \in predios' :
                      /\ RowsOf(predios', inflight[s].req.id_predio) = {p}
                      /\ p.status = inflight[s].req.status
                      /\ p.seccion = inflight[s].req.seccion
                /\ \A id \in Ids(predios) \ {inflight[s].req.id_predio} :
                      RowsOf(predios', id) = RowsOf(predios, id)
       /\ predios' # predios => \E s \in Slots : UpsertStep(s)]_vars

\* Two writes of P1 with different status and seccion have both run their
\* upsert, neither has finished, and the row is the one of the slot-2 write.
C5_Witness ==
    /\ Cardinality(Busy) >= 2
    /\ \A s \in {1, 2} : inflight[s].pc = "log" /\ inflight[s].req.id_predio = "P1"
    /\ inflight[1].req.status # inflight[2].req.status
    /\ inflight[1].req.seccion # inflight[2].req.seccion
    /\ \E p \in predios :
          /\ RowsOf(predios, "P1") = {p}
          /\ p.status = inflight[2].req.status
          /\ p.seccion = inflight[2].req.seccion

\* ---------------------------------------------------------------- C6
\* C6: in every step of every operation predio_logs keeps the rows it had, in
\* place and unchanged: the log after the step extends the log before it.
C6_AppendOnly ==
    [][/\ Len(predio_logs') >= Len(predio_logs)
       /\ SubSeq(predio_logs', 1, Len(predio_logs)) = predio_logs]_vars

\* A log of two rows has been read back by the change-history list.
C6_Witness ==
    /\ Len(predio_logs) = 2
    /\ resp.op = "GET /activity"
    /\ resp.code = 200
    /\ Len(resp.body) = 2

\* ---------------------------------------------------------------- C7
RECURSIVE SumOf(_, _)
\* The sum of column col over the rows of a result.
SumOf(rows, col) ==
    IF rows = <<>> THEN 0 ELSE Head(rows)[col] + SumOf(Tail(rows), col)

StatsAnswered == resp.op = "GET /stats" /\ resp.code = 200

\* C7: in every answer of GET /stats each row has rojo + azul + neutral = total,
\* the totals add up to the number of rows of predios, and each status column
\* adds up to the number of parcels of that status.
C7_CountsConserved ==
    StatsAnswered =>
       /\ \A i \in DOMAIN resp.body :
             resp.body[i].rojo + resp.body[i].azul + resp.body[i].neutral
                = resp.body[i].total
       /\ SumOf(resp.body, "total") = Cardinality(predios)
       /\ \A st \in {"rojo", "azul", "neutral"} :
             SumOf(resp.body, st) = Cardinality({p \in predios : p.status = st})

\* Two parcels of different status were counted in one group.
C7_Witness ==
    /\ StatsAnswered
    /\ \E i \in DOMAIN resp.body :
          /\ resp.body[i].total = 2
          /\ resp.body[i].rojo = 1
          /\ resp.body[i].neutral = 1

\* ---------------------------------------------------------------- C8
\* The log rows of parcel id that carry a seccion.
LoggedWithSeccion(id) ==
    {i \in DOMAIN predio_logs :
        predio_logs[i].id_predio = id /\ predio_logs[i].seccion # Null}

\* The seccion of the most recent of them by created_at (of each, on a tie).
MostRecentLoggedSeccion(id) ==
    {predio_logs[i].seccion : i \in
        {k \in LoggedWithSeccion(id) :
            \A j \in LoggedWithSeccion(id) :
                predio_logs[j].created_at <= predio_logs[k].created_at}}

\* C8: GET /stats groups a parcel whose stored seccion is null and that has log
\* rows with a seccion under the seccion of the most recent of those rows, later
\* rows with a null seccion notwithstanding, and not under the null group of the
\* sentinel; it groups a parcel with a stored seccion under that seccion.
C8_FallbackToLog ==
    /\ \A b \in Bases(predios, predio_logs) : \A p \in predios :
          /\ p.seccion # Null => b[p] = p.seccion
          /\ (p.seccion = Null /\ LoggedWithSeccion(p.id_predio) # {}) =>
                /\ b[p] \in MostRecentLoggedSeccion(p.id_predio)
                /\ b[p] # Null
    /\ StatsAnswered =>
          \E b \in Bases(predios, predio_logs) :
             /\ resp.body \in StatsOf(b)
             /\ \A p \in predios :
                   (p.seccion # Null \/ LoggedWithSeccion(p.id_predio) # {}) =>
                      \E i \in DOMAIN resp.body :
                         /\ resp.body[i].seccion
                               \in (IF p.seccion # Null THEN {p.seccion}
                                    ELSE MostRecentLoggedSeccion(p.id_predio))
                         /\ resp.body[i].total >= 1

\* P1 has no stored seccion; its log carries 356, then 357, then a later row
\* without seccion; the answer counts it under 357 and has no sentinel row.
C8_Witness ==
    /\ StatsAnswered
    /\ \E p \in predios : p.id_predio = "P1" /\ p.seccion = Null
    /\ Len(predio_logs) = 3
    /\ \A i \in 1..3 : predio_logs[i].id_predio = "P1"
    /\ predio_logs[1].seccion = "356" /\ predio_logs[1].created_at = 0
    /\ predio_logs[2].seccion = "357" /\ predio_logs[2].created_at = 1
    /\ predio_logs[3].seccion = Null /\ predio_logs[3].created_at = 1
    /\ \E i \in DOMAIN resp.body : resp.body[i].seccion = "357" /\ resp.body[i].total >= 1
    /\ \A i \in DOMAIN resp.body : resp.body[i].seccion # Sentinel

\* ---------------------------------------------------------------- C9
\* Parcels with no stored seccion and no log row that carries one.
Unresolved ==
    {p \in predios : p.seccion = Null /\ LoggedWithSeccion(p.id_predio) = {}}

\* C9: GET /stats puts the parcels that have no stored seccion and no log row
\* with a seccion in the null group, and answers that group as one row labelled
\* '(sin seccion)' whose total is the number of those parcels.
C9_SentinelBucket ==
    /\ \A b \in Bases(predios, predio_logs) : \A p \in Unresolved : b[p] = Null
    /\ (StatsAnswered /\ Unresolved # {}) =>
          \E i \in DOMAIN resp.body :
             /\ resp.body[i].seccion = "(sin seccion)"
             /\ resp.body[i].total = Cardinality(Unresolved)

\* P1 has no stored seccion and its only log rows carry none; the answer has it
\* in the sentinel row.
C9_Witness ==
    /\ StatsAnswered
    /\ predios = {NewRow("P1", "rojo", Null, 0)}
    /\ Len(predio_logs) = 2
    /\ \A i \in DOMAIN predio_logs : predio_logs[i].seccion = Null
    /\ resp.body = <<[seccion |-> "(sin seccion)", rojo |-> 1, azul |-> 0,
                      neutral |-> 0, total |-> 1]>>

\* ---------------------------------------------------------------- C10
ActivityAnswered == resp.op = "GET /activity" /\ resp.code = 200

\* C10: an answer of GET /activity has at most 500 rows whatever limit was asked
\* for; its rows are rows of predio_logs, none twice, in created_at descending
\* order, and no row left out is more recent than a row given.
C10_ActivityCapped ==
    ActivityAnswered =>
       /\ Len(resp.body) <= 500
       /\ Range(resp.body) \subseteq {ActivityRow(r) : r \in Range(predio_logs)}
       /\ Cardinality(Range(resp.body)) = Len(resp.body)
       /\ \A i \in 1..(Len(resp.body) - 1) :
             resp.body[i].created_at >= resp.body[i + 1].created_at
       /\ resp.body # <<>> =>
             LET oldest == resp.body[Len(resp.body)].created_at
             IN  \A r \in Range(predio_logs) \ Range(resp.body) : r.created_at <= oldest

\* The log has more than 500 rows and the answer has exactly 500, the newest
\* first.
C10_Witness ==
    /\ ActivityAnswered
    /\ Len(predio_logs) = 501
    /\ Len(resp.body) = 500
    /\ resp.body[1] = predio_logs[501]
    /\ resp.body[500] = predio_logs[2]

\* ---------------------------------------------------------------- C11
\* The limit a request asks for: the parameter as parseInt reads it, 100 when the
\* parameter is absent or empty.
RequestedLimit(q) == IF FalsyText(q) THEN Number(DefaultLimit) ELSE ParseInt(q)

\* v brought into 1..500.
Clamped(v) == IF v < 1 THEN 1 ELSE Min(v, 500)

\* C11: whatever number the limit parameter asks for, the select of
\* GET /activity is not rejected and returns the rows of the limit clamped into
\* 1..500: at most 500 rows, and at least one row when predio_logs is not empty,
\* a limit of 0 or less counting as 1.
C11_LimitClamped ==
    [][\A s \in Slots :
          (/\ SelectStep(s)
           /\ inflight[s].op = "GET /activity"
           /\ ~RequestedLimit(inflight[s].req.query).nan) =>
             /\ ~inflight'[s].failed
             /\ inflight'[s].rows
                   \in ActivityResults(predio_logs,
                                       Clamped(RequestedLimit(inflight[s].req.query).val))
             /\ Len(inflight'[s].rows) <= 500
             /\ predio_logs # <<>> => Len(inflight'[s].rows) >= 1]_vars

\* ---------------------------------------------------------------- C12
\* The step in which the log insert of the request in slot s rejects, after its
\* upsert ran.
LogInsertFails(s) == inflight[s].pc = "log" /\ PostFailed(s)

\* C12: the upsert of a status write stores the write's status and seccion and
\* appends nothing to predio_logs; when the log insert then fails the request is
\* answered 500 db_error, predios keeps the row the upsert left (nothing is
\* rolled back) and predio_logs gets no row for the write.
C12_ConsistencyGap ==
    [][\A s \in Slots :
          /\ UpsertStep(s) =>
                /\ \A p \in RowsOf(predios', inflight[s].req.id_predio) :
                      /\ p.status = inflight[s].req.status
                      /\ p.seccion = inflight[s].req.seccion
                /\ predio_logs' = predio_logs
          /\ LogInsertFails(s) =>
                /\ resp' = DbError("POST /predios")
                /\ predios' = predios
                /\ RowsOf(predios', inflight[s].req.id_predio) # {}
                /\ predio_logs' = predio_logs]_vars

\* The only write so far, (P1, rojo, 356), was answered db_error after its
\* upsert: predios has its row and predio_logs is empty.
C12_Witness ==
    /\ resp = DbError("POST /predios")
    /\ served = 1
    /\ Busy = {}
    /\ \E p \in predios :
          p.id_predio = "P1" /\ p.status = "rojo" /\ p.seccion = "356"
    /\ predio_logs = <<>>

\* ---------------------------------------------------------------- C13
\* Values of the secciones parameter the claim is checked for: absent, blanks
\* and commas only, one seccion, two secciones.
FilterQueries == SeccionQueries \cup {<<" ", ",">>, <<"356">>}

\* The set of secciones a query asks for.
Asked(q) == {SegText(seg) : seg \in Range(ParseSecciones(q))}

\* What the claim has the list return for q over table: the parcels whose stored
\* seccion is asked for, or all of them when none is asked for.
Listed(table, q) ==
    IF Asked(q) = {} THEN table ELSE {p \in table : p.seccion \in Asked(q)}

\* rows holds each parcel of ps once, with its status, and nothing else.
ShowsExactly(rows, ps) ==
    /\ Len(rows) = Cardinality(ps)
    /\ Range(rows) = {[id_predio |-> p.id_predio, status |-> p.status] : p \in ps}

\* C13: over every table a write leaves, each answer the list can give for a set
\* of secciones holds exactly the parcels whose stored seccion is in the set, and
\* all parcels when the set is empty; a list request sends the secciones its
\* query names with its select, and the rows the select returns when the
\* database runs it are such an answer over the table of that moment.  When a write
\* without seccion runs its upsert over a parcel stored with seccion sec, sec
\* being the most recent seccion in the parcel's log, then afterwards no filtered
\* list returns the parcel, the unfiltered list does, and every answer of
\* GET /stats counts the parcel under sec.
C13_FilterStoredOnly ==
    [][/\ predios' # predios =>
             \A q \in FilterQueries :
                /\ ListPredios(predios', ParseSecciones(q)) # {}
                /\ \A rows \in ListPredios(predios', ParseSecciones(q)) :
                      ShowsExactly(rows, Listed(predios', q))
       /\ \A s \in Slots :
             (inflight[s].pc = "idle" /\ inflight'[s].pc = "select") =>
                \A q \in SeccionQueries :
                   GetPredios(q) =>
                      {SegText(seg) : seg \in Range(inflight'[s].req)} = Asked(q)
       /\ \A s \in Slots :
             (SelectStep(s) /\ inflight[s].op = "GET /predios") =>
                LET asked == {SegText(seg) : seg \in Range(inflight[s].req)}
                IN  /\ ~inflight'[s].failed
                    /\ ShowsExactly(inflight'[s].rows,
                                    IF asked = {} THEN predios
                                    ELSE {p \in predios : p.seccion \in asked})
       /\ \A s \in Slots : UpsertStep(s) =>
          \A old \in RowsOf(predios, inflight[s].req.id_predio) :
             (/\ inflight[s].req.seccion = Null
              /\ old.seccion # Null
              /\ MostRecentLoggedSeccion(old.id_predio) = {old.seccion}) =>
                /\ \A q \in FilterQueries : \A rows \in ListPredios(predios', ParseSecciones(q)) :
                      (\E i \in DOMAIN rows : rows[i].id_predio = old.id_predio)
                         <=> Asked(q) = {}
                /\ \A b \in Bases(predios', predio_logs') :
                      \A p \in RowsOf(predios', old.id_predio) : b[p] = old.seccion
                /\ \A rows \in StatsResults(predios', predio_logs') :
                      \E i \in DOMAIN rows :
                         rows[i].seccion = old.seccion /\ rows[i].total >= 1]_vars

\* P1 was written with seccion 356 and then without seccion; the list filtered by
\* 356 and 357 was answered with no rows, and GET /stats counts P1 under 356.
C13_Witness ==
    /\ predios # {}
    /\ \A p \in predios : p.id_predio = "P1" /\ p.seccion = Null /\ p.status = "azul"
    /\ Len(predio_logs) = 2
    /\ predio_logs[1].seccion = "356"
    /\ predio_logs[2].seccion = Null
    /\ resp = Response("GET /predios", 200, <<>>)
    /\ \A rows \in StatsResults(predios, predio_logs) :
          Len(rows) = 1 /\ rows[1].seccion = "356" /\ rows[1].azul = 1

\* ---------------------------------------------------------------- C14
UsersAnswered == resp.op = "GET /users" /\ resp.code = 200

\* The actors that have a row in user_sessions.
Actors == {user_sessions[i].usuario : i \in DOMAIN user_sessions}

\* created_at of the rows of actor u.
SeenAt(u) ==
    {user_sessions[i].created_at :
        i \in {k \in DOMAIN user_sessions : user_sessions[k].usuario = u}}

\* C14: an answer of GET /users has one row for each actor with a row in
\* user_sessions and no other row; a row's last_seen is the greatest created_at
\* of its actor's rows; rows come in last_seen descending order.
C14_OneRowPerActor ==
    UsersAnswered =>
       /\ Len(resp.body) = Cardinality(Actors)
       /\ {resp.body[i].usuario : i \in DOMAIN resp.body} = Actors
       /\ \A i \in DOMAIN resp.body :
             /\ resp.body[i].last_seen \in SeenAt(resp.body[i].usuario)
             /\ \A t \in SeenAt(resp.body[i].usuario) : t <= resp.body[i].last_seen
       /\ \A i, j \in DOMAIN resp.body :
             i < j => resp.body[i].last_seen >= resp.body[j].last_seen

\* The rows of ana bear 1 and then 0, the row of beto between them bears 0: the
\* answer has ana first with last_seen 1, then beto with last_seen 0.
C14_Witness ==
    /\ UsersAnswered
    /\ Len(user_sessions) = 3
    /\ [i \in 1..3 |-> user_sessions[i].usuario] = <<"ana", "beto", "ana">>
    /\ [i \in 1..3 |-> user_sessions[i].created_at] = <<1, 0, 0>>
    /\ Len(resp.body) = 2
    /\ resp.body[1].usuario = "ana" /\ resp.body[1].last_seen = 1
    /\ resp.body[2].usuario = "beto" /\ resp.body[2].last_seen = 0

\* ---------------------------------------------------------------- C15
\* No request is in flight and none has failed.
QuiescentAllOk ==
    /\ Busy = {}
    /\ ~errors

\* The last row of predio_logs for parcel id, in insertion order.
LastOf(id) ==
    {predio_logs[i] : i \in {k \in DOMAIN predio_logs :
        /\ predio_logs[k].id_predio = id
        /\ \A j \in DOMAIN predio_logs : predio_logs[j].id_predio = id => j <= k}}

\* The most recent rows of predio_logs for parcel id: those no row of the parcel
\* exceeds in created_at (more than one when the latest rows share it).
HeadsOf(id) ==
    {r \in Range(predio_logs) :
        /\ r.id_predio = id
        /\ \A q \in Range(predio_logs) : q.id_predio = id => q.created_at <= r.created_at}

\* C15: when no write is in flight and all writes were answered ok, each
\* parcel's row in predios carries the status and the seccion of the parcel's
\* most recent row in predio_logs, the last inserted or one of the latest by
\* created_at.
C15_HeadMatchesRow ==
    QuiescentAllOk =>
       \A p \in predios :
          HeadsOf(p.id_predio) # {} =>
             \E h \in HeadsOf(p.id_predio) \cup LastOf(p.id_predio) :
                h.status = p.status /\ h.seccion = p.seccion

\* ---------------------------------------------------------------- C16
\* The step in which the upsert of the request in slot s rejects.
UpsertFails(s) == inflight[s].pc = "upsert" /\ PostFailed(s)

\* C16: a request comes to its log insert only through the step that runs its
\* upsert; predio_logs grows only by the row of a request whose upsert has run,
\* which has its parcel in predios; a request whose upsert fails is answered
\* db_error and dropped with predio_logs and predios untouched; so after every
\* step each row of predio_logs has a row of its parcel in predios.
C16_LogAfterUpsert ==
    [][/\ \A s \in Slots :
             /\ (inflight'[s].pc = "log" /\ inflight[s].pc # "log") => UpsertStep(s)
             /\ UpsertFails(s) =>
                   /\ resp' = DbError("POST /predios")
                   /\ inflight'[s] = Idle
                   /\ predio_logs' = predio_logs
                   /\ predios' = predios
       /\ predio_logs' # predio_logs =>
             \E s \in Slots : \E now \in Instants :
                /\ LogStep(s)
                /\ predio_logs' = Append(predio_logs, LogRow(inflight[s].req, now))
                /\ RowsOf(predios, inflight[s].req.id_predio) # {}
       /\ \A i \in DOMAIN predio_logs' :
             RowsOf(predios', predio_logs'[i].id_predio) # {}]_vars

\* The only write so far failed at its upsert: it was answered db_error and
\* both tables are empty.
C16_Witness ==
    /\ resp = DbError("POST /predios")
    /\ served = 1
    /\ errors
    /\ Busy = {}
    /\ predios = {}
    /\ predio_logs = <<>>

\* ---------------------------------------------------------------- C17
\* C17: the step that takes up a read (the list, the stats, the actor
\* directory, the change history) and sends its select, the step in which the
\* database runs the select, and the step that answers a read, with
\* rows or with db_error, leave predios, predio_logs and user_sessions as they
\* were; a parcel without stored seccion that GET /stats counts under a seccion
\* from the log still has no stored seccion.
C17_ReadsFrame ==
    [][((\E s \in Slots : inflight[s] = Idle /\ inflight'[s].pc = "select")
          \/ (\E s \in Slots : SelectStep(s))
          \/ resp'.op \in Reads) =>
          /\ predios' = predios
          /\ predio_logs' = predio_logs
          /\ user_sessions' = user_sessions
          /\ \A p \in predios :
                p.seccion = Null =>
                   \E r \in RowsOf(predios', p.id_predio) : r.seccion = Null]_vars

\* GET /stats counted P1, stored without seccion, under the 356 of its log;
\* the stored seccion is still null.
C17_Witness ==
    /\ resp.op = "GET /stats"
    /\ resp.code = 200
    /\ \E i \in DOMAIN resp.body : resp.body[i].seccion = "356" /\ resp.body[i].total = 1
    /\ predios # {}
    /\ \A p \in predios : p.id_predio = "P1" /\ p.seccion = Null
    /\ \E i \in DOMAIN predio_logs :
          predio_logs[i].id_predio = "P1" /\ predio_logs[i].seccion = "356"

\* ---------------------------------------------------------------- C18
\* C18: no answer of GET /stats has two rows with the same seccion label, the
\* label '(sin seccion)' included.
C18_LabelsDistinct ==
    StatsAnswered =>
       \A i, j \in DOMAIN resp.body :
          i # j => resp.body[i].seccion # resp.body[j].seccion

\* ---------------------------------------------------------------- C19
OkLogin == Response("POST /login", 200, [ok |-> TRUE])

\* The step in which the database runs the insert of the login in slot s.
LoginStep(s) == inflight[s].pc = "insert" /\ inflight'[s].pc = "answer"

\* C19: a login whose body has no usuario, or an empty one, is answered 400, is
\* not taken up, and leaves predios, predio_logs and user_sessions as they were;
\* the insert of an accepted login appends one row, the actor's, to
\* user_sessions and leaves the rows it had, predios and predio_logs as they
\* were; user_sessions changes in no other step, and no step that takes up or
\* answers a login changes a table; a login is answered ok only after its insert.
C19_LoginAppendsOne ==
    [][/\ \A body \in LoginBodies :
             (body.usuario \in {Undefined, Null, ""} /\ PostLogin(body)) =>
                /\ resp' = Response("POST /login", 400, [error |-> "usuario requerido"])
                /\ UNCHANGED <<predios, predio_logs, user_sessions, inflight>>
       /\ \A s \in Slots :
             LoginStep(s) =>
                /\ Len(user_sessions') = Len(user_sessions) + 1
                /\ SubSeq(user_sessions', 1, Len(user_sessions)) = user_sessions
                /\ user_sessions'[Len(user_sessions')].usuario = inflight[s].req.usuario
                /\ inflight[s].req.usuario \notin {Undefined, Null, ""}
                /\ UNCHANGED <<predios, predio_logs>>
       /\ user_sessions' # user_sessions => \E s \in Slots : LoginStep(s)
       /\ resp'.op = "POST /login" => UNCHANGED <<predios, predio_logs, user_sessions>>
       /\ resp' = OkLogin =>
             \E s \in Slots :
                /\ inflight[s].pc = "answer"
                /\ inflight[s].op = "POST /login"
                /\ inflight'[s] = Idle]_vars

\* ana logged in twice: user_sessions holds both rows, the first as it was
\* written.
C19_Witness ==
    /\ resp = OkLogin
    /\ Len(user_sessions) = 2
    /\ user_sessions[1].usuario = "ana" /\ user_sessions[1].created_at = 0
    /\ user_sessions[2].usuario = "ana" /\ user_sessions[2].created_at = 1
====
